---- MODULE Spec2Model ----
(***************************************************************************)
(* Model of the video ingestion pipeline: handlerUploadVideo with its two  *)
(* subprocess helpers (processVideoForFastStart, getVideoAspectRatio) and  *)
(* the playback URL resolver dbVideoToSignedVideo.                         *)
(*                                                                         *)
(* Go strings are modelled as sequences of one-character strings, so that  *)
(* formatting (fmt.Sprintf, +) and splitting (strings.SplitN) are computed *)
(* character by character.  A *string is Nil (<<>>) or Some(s) (<<s>>).    *)
(***************************************************************************)
EXTENDS Integers, Sequences, FiniteSets, TLC

\* ------------------------------------------------------------------ bounds
\* Longest raw VideoURL handed to the resolver.
MaxLen == 4
\* Longest bucket / key of a joined descriptor handed to the resolver.
MaxPart == 2
\* Largest width / height a probe reports in the classifier specification.
MaxDim == 200
\* Number of upload requests served one after the other.
MaxReqs == 2

\* ------------------------------------------------------- program constants
maxUploadSize == 1073741824
StatusOK == 200
StatusBadRequest == 400
StatusUnauthorized == 401
StatusNotFound == 404
StatusRequestEntityTooLarge == 413
StatusInternalServerError == 500

\* ----------------------------------------------------------------- strings
Nil == <<>>
Some(s) == <<s>>
IsNil(p) == p = Nil
Deref(p) == p[1]

Alphabet == {"b", "k", ","}
RECURSIVE StringsOver(_, _)
StringsOver(chars, n) ==
  IF n = 0 THEN {<<>>}
  ELSE LET shorter == StringsOver(chars, n - 1)
       IN  shorter \cup {Append(s, c) : s \in {t \in shorter : Len(t) = n - 1}, c \in chars}

\* Index of the first occurrence of the one-character separator, 0 if none.
IndexOf(s, sep) ==
  IF \E i \in 1..Len(s) : s[i] = sep
  THEN CHOOSE i \in 1..Len(s) : s[i] = sep /\ \A j \in 1..(i - 1) : s[j] # sep
  ELSE 0

\* Mutant: strings.Split, which cuts at every separator.
RECURSIVE SplitAll(_, _, _)
SplitAll(s, sep, n) ==
  LET i == IndexOf(s, sep)
  IN  IF i = 0 THEN <<s>>
      ELSE <<SubSeq(s, 1, i - 1)>> \o SplitAll(SubSeq(s, i + 1, Len(s)), sep, n)

\* strings.SplitN(s, sep, n) for a one-character sep: at most n pieces, the
\* last one the unsplit remainder; n = 0 gives nil; n < 0 means no limit.
RECURSIVE SplitN(_, _, _)
SplitN(s, sep, n) ==
  LET i == IndexOf(s, sep)
  IN  IF n = 0 THEN <<>>
      ELSE IF n = 1 \/ i = 0 THEN <<s>>
      ELSE <<SubSeq(s, 1, i - 1)>> \o SplitN(SubSeq(s, i + 1, Len(s)), sep, n - 1)

\* ---------------------------------------------------------------- resolver
\* database.Video{}: the zero record returned beside an error.
ZeroVideo == [ID |-> "", UserID |-> "", VideoURL |-> Nil]

\* The URL the presign client returns for (bucket, key); its query string
\* carries the signature.
PresignedURLOf(bucket, key) ==
  <<"h", "t", "t", "p", "s", ":", "/", "/">> \o bucket \o <<"/">> \o key \o <<"?", "s", "i", "g">>

\* generatePresignedURL: one PresignGetObject call whose outcome (sdk) is
\* "ok" or "err"; calls records the (bucket, key) pairs given to the store.
generatePresignedURL(bucket, key, sdk) ==
  IF sdk = "err"
  THEN [url |-> <<>>, err |-> "presign", calls |-> <<<<bucket, key>>>>]
  ELSE [url |-> PresignedURLOf(bucket, key), err |-> "nil", calls |-> <<<<bucket, key>>>>]

\* Mutant: the nil check comes after the split of a zero string.
dbVideoToSignedVideoNoNilCheck(video, sdk) ==
  LET s == IF IsNil(video.VideoURL) THEN <<>> ELSE Deref(video.VideoURL)
      splitURL == SplitN(s, ",", 2)
  IN  IF Len(splitURL) # 2
      THEN [video |-> ZeroVideo, err |-> "invalid videoURL", calls |-> <<>>]
      ELSE LET p == generatePresignedURL(splitURL[1], splitURL[2], sdk)
           IN  IF p.err # "nil"
               THEN [video |-> ZeroVideo, err |-> p.err, calls |-> p.calls]
               ELSE [video |-> [video EXCEPT !.VideoURL = Some(p.url)], err |-> "nil",
                     calls |-> p.calls]

\* dbVideoToSignedVideo(video): the returned record, the error ("nil" for
\* none) and the signing calls made.
dbVideoToSignedVideo(video, sdk) ==
  IF IsNil(video.VideoURL)
  THEN [video |-> video, err |-> "nil", calls |-> <<>>]
  ELSE LET splitURL == SplitN(Deref(video.VideoURL), ",", 2)
       IN  IF Len(splitURL) # 2
           THEN [video |-> ZeroVideo, err |-> "invalid videoURL", calls |-> <<>>]
           ELSE LET bucket == splitURL[1]
                    key == splitURL[2]
                    p == generatePresignedURL(bucket, key, sdk)
                IN  IF p.err # "nil"
                    THEN [video |-> ZeroVideo, err |-> p.err, calls |-> p.calls]
                    ELSE [video |-> [video EXCEPT !.VideoURL = Some(p.url)], err |-> "nil",
                          calls |-> p.calls]

\* -------------------------------------------------------------- classifier
\* float64(w) / float64(h) for the bounded non-negative dimensions of the
\* model: a finite quotient kept as the exact fraction w/h, +Inf for w/0 with
\* w > 0, NaN for 0/0.  The literals 1.7, 1.85, 0.52 and 0.6 are the fractions
\* 17/10, 185/100, 52/100 and 6/10: for |h| < 2^26 a quotient w/h that differs
\* from such a fraction differs by at least 1/(100 h), far more than the
\* rounding of the division or of the literal, and a quotient equal to it
\* rounds to the literal's own double, so the float comparison and the exact
\* one agree.
FloatDiv(w, h) ==
  IF h # 0 THEN [k |-> "fin", n |-> w, d |-> h]
  ELSE IF w > 0 THEN [k |-> "+Inf", n |-> 0, d |-> 1]
  ELSE [k |-> "NaN", n |-> 0, d |-> 1]

\* x > n/d and x < n/d for a float x and a positive decimal literal n/d.
FloatGt(x, n, d) ==
  CASE x.k = "fin" -> x.n * d > n * x.d
    [] x.k = "+Inf" -> TRUE
    [] OTHER -> FALSE
FloatLt(x, n, d) ==
  CASE x.k = "fin" -> x.n * d < n * x.d
    [] OTHER -> FALSE

\* Mutant: the upper end of the 16:9 band is inclusive (<= 1.85).
BucketRatioInclusive(aspectRatio) ==
  IF FloatGt(aspectRatio, 17, 10) /\ ~FloatGt(aspectRatio, 185, 100) /\ aspectRatio.k = "fin"
  THEN "16:9"
  ELSE IF FloatGt(aspectRatio, 52, 100) /\ FloatLt(aspectRatio, 6, 10) THEN "9:16"
  ELSE "other"

\* The if / else-if chain that buckets the ratio.
BucketRatio(aspectRatio) ==
  IF FloatGt(aspectRatio, 17, 10) /\ FloatLt(aspectRatio, 185, 100) THEN "16:9"
  ELSE IF FloatGt(aspectRatio, 52, 100) /\ FloatLt(aspectRatio, 6, 10) THEN "9:16"
  ELSE "other"

\* The probe tool's run: exit is "ok" or "fail"; json says whether its
\* output unmarshals; streams is the parsed stream list.
ProbeRun(exit, json, streams) == [exit |-> exit, json |-> json, streams |-> streams]

\* getVideoAspectRatio: kind "ok" with the class in val, kind "err" with the
\* error in val, or kind "panic" (index out of range on Streams[0]).
getVideoAspectRatio(run) ==
  IF run.exit # "ok" THEN [kind |-> "err", val |-> "ffprobe"]
  ELSE IF ~run.json THEN [kind |-> "err", val |-> "unmarshal"]
  ELSE IF Len(run.streams) = 0 THEN [kind |-> "panic", val |-> "index out of range"]
  ELSE LET videoWidth == run.streams[1].Width
           videoHeight == run.streams[1].Height
       IN  [kind |-> "ok", val |-> BucketRatio(FloatDiv(videoWidth, videoHeight))]

\* ---------------------------------------------------------------- pipeline
VARIABLES
  db,     \* the metadata store: video id -> database.Video
  disk,   \* the local files: records [path, by, content]
  store,  \* the objects in the object store
  h,      \* one handlerUploadVideo frame per request
  ret,    \* what the last dbVideoToSignedVideo call returned (Nil before any)
  pair,   \* the (bucket, key) the stored descriptor was joined from, or Nil
  probe,  \* the probe run handed to the classifier specification, or Nil
  class   \* what getVideoAspectRatio returned for probe, or Nil

vars == <<db, disk, store, h, ret, pair, probe, class>>

Reqs == 1..MaxReqs

\* cfg.s3Bucket and cfg.s3Region (S3 bucket and region names hold no comma).
s3Bucket == <<"t", "u", "b", "e">>
s3Region == <<"e", "u">>

\* What a request can carry.  bodySize counts the bytes of the multipart form
\* the parser has to read, through its closing boundary.
VideoIDStrings == {"V1", "V9", "not-a-uuid"}
Bearers == {"none", "bad", "U1", "U2"}
BodySizes == {1, maxUploadSize, maxUploadSize + 1}
Multiparts == {"ok", "malformed", "nofield"}
ContentTypes == {"video/mp4", "video/mp4; codecs=avc1", "image/png", ""}
\* What the environment can answer.
TempSuffixes == {"1", "2"}
RandomBytes == {<<10>>, <<255>>}
Stderrs == {"unsupported codec", "No such file or directory"}
ProbeStreams ==
  { <<>>,
    <<[Width |-> 1920, Height |-> 1080]>>,
    <<[Width |-> 1080, Height |-> 1920]>>,
    <<[Width |-> 640, Height |-> 480]>>,
    <<[Width |-> 1080, Height |-> 1920], [Width |-> 1920, Height |-> 1080]>> }

\* The frame of a request that has not arrived.
IdleFrame ==
  [pc |-> "idle", bodySize |-> 0, videoID |-> "", userID |-> "", video |-> ZeroVideo,
   parsed |-> FALSE, multipart |-> "", mediaContentType |-> "", fileExt |-> <<>>, tempFile |-> Nil,
   randomBytes |-> <<>>, processedFilePath |-> Nil, processedFile |-> Nil,
   probed |-> <<>>, aspectRatio |-> "", fileKey |-> <<>>, defers |-> <<>>, status |-> 0, msg |-> "",
   err |-> Nil, writes |-> 0, panicked |-> FALSE, stages |-> <<>>, tools |-> <<>>,
   puts |-> <<>>, updated |-> FALSE, ffmpeg |-> Nil]

\* respondWithError / respondWithJSON: one response written with the status.
respondWithError(f, code, msg, err) ==
  [f EXCEPT !.status = code, !.msg = msg, !.err = err, !.writes = f.writes + 1]
respondWithJSON(f, code) ==
  [f EXCEPT !.status = code, !.writes = f.writes + 1]

\* os.Remove(path).
Remove(files, path) == {x \in files : x.path # path}

\* The deferred calls of a returning (or panicking) frame, last in first out.
\* Closing a handle leaves the disk alone; only the removals change it.
RECURSIVE RunDefers(_, _)
RunDefers(files, defers) ==
  IF defers = <<>> THEN files
  ELSE LET d == defers[Len(defers)]
           rest == SubSeq(defers, 1, Len(defers) - 1)
       IN  CASE d.call = "tempFile.Close;os.Remove" -> RunDefers(Remove(files, d.path), rest)
             [] d.call = "os.Remove" -> RunDefers(Remove(files, d.path), rest)
             [] OTHER -> RunDefers(files, rest)

\* Mutant: the return after the failed put is missing, so the handler goes on
\* to the record update.
ReturnedExceptAfterPut(f) ==
  IF f.pc = "put" /\ f.status = StatusInternalServerError
  THEN [f EXCEPT !.pc = "update"]
  ELSE [f EXCEPT !.pc = "done", !.defers = <<>>]

\* The frame after the handler returned.
Returned(f) == [f EXCEPT !.pc = "done", !.defers = <<>>]

\* An early return after respondWithError.
Fail(r, f, code, msg, err) ==
  /\ h' = [h EXCEPT ![r] = Returned(respondWithError(f, code, msg, err))]
  /\ disk' = RunDefers(disk, f.defers)

Enter(f, stage) == [f EXCEPT !.stages = Append(f.stages, stage)]

\* The frame of a handler that returned before the next request arrived: its
\* locals are gone.
GoneFrame == [IdleFrame EXCEPT !.pc = "gone"]

\* No upload is being served.
Quiescent == \A r \in Reqs : h[r].pc \in {"idle", "done", "gone"}

\* A request arrives; requests are served one after the other, and what the
\* handlers before it returned is no longer held.
Receive(r) ==
  /\ h[r].pc = "idle"
  /\ \A q \in Reqs : q < r => h[q].pc \in {"done", "gone"}
  /\ \E size \in BodySizes :
       h' = [q \in Reqs |->
               IF q = r THEN [IdleFrame EXCEPT !.pc = "validate", !.bodySize = size]
               ELSE IF q < r THEN GoneFrame ELSE h[q]]
  /\ ret' = Nil
  /\ UNCHANGED <<db, disk, store, pair, probe, class>>

\* Mutant: the body is parsed without the ceiling.
ParseOutcomesNoCeiling(bodySize, multipart) ==
  IF multipart = "malformed" THEN {"malformed"} ELSE {"nil"}

\* Mutant: the owner check is missing.
NotOwnerUnchecked(video, userID) == FALSE

\* video.UserID != userID.
NotOwner(video, userID) == video.UserID # userID

\* uuid.Parse, auth.GetBearerToken, auth.ValidateJWT, cfg.db.GetVideo and the
\* owner check.
Authorize(r) ==
  /\ h[r].pc = "validate"
  /\ \E videoIDString \in VideoIDStrings, bearer \in Bearers :
       LET f == Enter(h[r], "validate") IN
       IF videoIDString = "not-a-uuid"
       THEN Fail(r, f, StatusBadRequest, "Invalid ID", Some("uuid"))
       ELSE IF bearer = "none"
       THEN Fail(r, [f EXCEPT !.videoID = videoIDString],
                 StatusUnauthorized, "Couldn't find JWT", Some("no auth header"))
       ELSE IF bearer = "bad"
       THEN Fail(r, [f EXCEPT !.videoID = videoIDString],
                 StatusUnauthorized, "Couldn't validate JWT", Some("invalid token"))
       ELSE LET g == [f EXCEPT !.videoID = videoIDString, !.userID = bearer] IN
            IF videoIDString \notin DOMAIN db
            THEN Fail(r, g, StatusNotFound, "Video not found", Some("not found"))
            ELSE LET video == db[videoIDString] IN
                 IF NotOwner(video, bearer)
                 THEN Fail(r, [g EXCEPT !.video = video], StatusUnauthorized,
                           "You can't upload a video for this user", Nil)
                 ELSE /\ h' = [h EXCEPT ![r] = [g EXCEPT !.video = video, !.pc = "parse"]]
                      /\ disk' = disk
  /\ UNCHANGED <<db, store, ret, pair, probe, class>>

\* r.ParseMultipartForm behind http.MaxBytesReader: reading past the ceiling
\* is a MaxBytesError; a body that is no well-formed multipart form is another
\* error, whichever the reader meets first.
ParseOutcomes(bodySize, multipart) ==
  (IF bodySize > maxUploadSize THEN {"MaxBytesError"} ELSE {})
  \cup (IF multipart = "malformed" THEN {"malformed"} ELSE {})
  \cup (IF bodySize <= maxUploadSize /\ multipart # "malformed" THEN {"nil"} ELSE {})

\* mime.ParseMediaType: the media type without its parameters, or an error.
ParseMediaType(v) ==
  CASE v = "video/mp4" -> [mediaType |-> "video/mp4", err |-> Nil]
    [] v = "video/mp4; codecs=avc1" -> [mediaType |-> "video/mp4", err |-> Nil]
    [] v = "image/png" -> [mediaType |-> "image/png", err |-> Nil]
    [] OTHER -> [mediaType |-> "", err |-> Some("mime: no media type")]

\* The size ceiling, the multipart parse, r.FormFile("video") and the media
\* type switch.
ParseForm(r) ==
  /\ h[r].pc = "parse"
  /\ \E multipart \in Multiparts, contentType \in ContentTypes :
     \E perr \in ParseOutcomes(h[r].bodySize, multipart) :
       LET f == [Enter(h[r], "parse") EXCEPT !.parsed = TRUE, !.multipart = multipart] IN
       IF perr = "MaxBytesError"
       THEN Fail(r, f, StatusRequestEntityTooLarge, "File is too large", Some(perr))
       ELSE IF perr # "nil"
       THEN Fail(r, f, StatusBadRequest, "Unable to parse form", Some(perr))
       ELSE IF multipart = "nofield"
       THEN Fail(r, f, StatusBadRequest, "Unable to parse multipart form file",
                 Some("http: no such file"))
       ELSE LET g == [f EXCEPT !.defers = Append(f.defers, [call |-> "file.Close", path |-> <<>>]),
                               !.mediaContentType = contentType]
                m == ParseMediaType(contentType)
            IN  IF ~IsNil(m.err)
                THEN Fail(r, g, StatusInternalServerError, "Error processing extension", m.err)
                ELSE IF m.mediaType = "video/mp4"
                THEN /\ h' = [h EXCEPT ![r] = [g EXCEPT !.fileExt = <<".", "m", "p", "4">>,
                                                        !.pc = "createTemp"]]
                     /\ disk' = disk
                ELSE Fail(r, g, StatusBadRequest, "Invalid video type", Nil)
  /\ UNCHANGED <<db, store, ret, pair, probe, class>>

\* os.CreateTemp("", "tubely-upload.mp4"): a name no existing file has.
TempPath(suffix) == <<"/tmp/", "tubely-upload.mp4", suffix>>
Exists(files, path) == \E x \in files : x.path = path

CreateTemp(r) ==
  /\ h[r].pc = "createTemp"
  /\ LET f == Enter(h[r], "stage") IN
     \/ Fail(r, f, StatusInternalServerError, "Error creating temp file", Some("io"))
     \/ \E suffix \in TempSuffixes :
          /\ ~Exists(disk, TempPath(suffix))
          /\ disk' = disk \cup {[path |-> TempPath(suffix), by |-> r, content |-> "empty"]}
          /\ h' = [h EXCEPT ![r] =
                     [f EXCEPT !.tempFile = Some(TempPath(suffix)),
                               !.defers = Append(f.defers,
                                  [call |-> "tempFile.Close;os.Remove", path |-> TempPath(suffix)]),
                               !.pc = "copy"]]
  /\ UNCHANGED <<db, store, ret, pair, probe, class>>

\* Write(files, path, content): the file at path gets the content.
Write(files, path, content) ==
  {IF x.path = path THEN [x EXCEPT !.content = content] ELSE x : x \in files}

\* io.Copy(tempFile, file) and tempFile.Seek(0, io.SeekStart).
CopyBody(r) ==
  /\ h[r].pc = "copy"
  /\ LET f == h[r]
         tempFilePath == Deref(f.tempFile)
     IN  \/ /\ h' = [h EXCEPT ![r] = Returned(respondWithError(f, StatusInternalServerError,
                                       "Error copying video data to file", Some("io")))]
            /\ disk' = RunDefers(Write(disk, tempFilePath, "partial upload"), f.defers)
         \/ /\ h' = [h EXCEPT ![r] = Returned(respondWithError(f, StatusInternalServerError,
                                       "Error resetting temp file pointer", Some("io")))]
            /\ disk' = RunDefers(Write(disk, tempFilePath, "upload"), f.defers)
         \/ /\ h' = [h EXCEPT ![r] = [f EXCEPT !.pc = "faststart"]]
            /\ disk' = Write(disk, tempFilePath, "upload")
  /\ UNCHANGED <<db, store, ret, pair, probe, class>>

\* The remux tool's run: its exit, whether it left an output file behind, and
\* what it wrote to stderr.  A run that exits zero has written its output; one
\* that exits nonzero may have created the output before giving up.  Without
\* -y the tool refuses to overwrite an existing output and exits nonzero.
FFmpegRuns(outExists) ==
  (IF outExists THEN {}
   ELSE {[exit |-> "ok", wrote |-> TRUE, stderr |-> ""]}
        \cup {[exit |-> "fail", wrote |-> TRUE, stderr |-> s] : s \in Stderrs})
  \cup {[exit |-> "fail", wrote |-> FALSE, stderr |-> s] : s \in Stderrs}

\* Mutant: the error carries the exit error alone, without stderr.String().
processVideoForFastStartNoDetails(filePath, run) ==
  LET outFilePath == filePath \o <<".processing">> IN
  IF run.exit # "ok"
  THEN [path |-> <<>>, out |-> outFilePath,
        err |-> Some([msg |-> "ffmpeg error", details |-> ""])]
  ELSE [path |-> outFilePath, out |-> outFilePath, err |-> Nil]

\* processVideoForFastStart(filePath): the returned path and error, and the
\* path the tool was told to write.
processVideoForFastStart(filePath, run) ==
  LET outFilePath == filePath \o <<".processing">> IN
  IF run.exit # "ok"
  THEN [path |-> <<>>, out |-> outFilePath,
        err |-> Some([msg |-> "ffmpeg error", details |-> run.stderr])]
  ELSE [path |-> outFilePath, out |-> outFilePath, err |-> Nil]

\* rand.Read, processVideoForFastStart(tempFile.Name()) and the deferred
\* removal of its result.
FastStart(r) ==
  /\ h[r].pc = "faststart"
  /\ \E bytes \in RandomBytes :
     \E run \in FFmpegRuns(Exists(disk, Deref(h[r].tempFile) \o <<".processing">>)) :
       LET f == [Enter(h[r], "normalize") EXCEPT !.randomBytes = bytes,
                                                 !.tools = Append(h[r].tools, "ffmpeg"),
                                                 !.ffmpeg = Some(run)]
           p == processVideoForFastStart(Deref(f.tempFile), run)
           after == IF run.wrote
                    THEN disk \cup {[path |-> p.out, by |-> r,
                                     content |-> IF run.exit = "ok" THEN "faststart" ELSE "partial"]}
                    ELSE disk
       IN  IF ~IsNil(p.err)
           THEN /\ h' = [h EXCEPT ![r] = Returned(respondWithError(f, StatusInternalServerError,
                                           "Error processing video for fast start", p.err))]
                /\ disk' = RunDefers(after, f.defers)
           ELSE /\ h' = [h EXCEPT ![r] =
                           [f EXCEPT !.processedFilePath = Some(p.path),
                                     !.defers = Append(f.defers, [call |-> "os.Remove", path |-> p.path]),
                                     !.pc = "open"]]
                /\ disk' = after
  /\ UNCHANGED <<db, store, ret, pair, probe, class>>

\* What a handle opened on path reads from offset zero.
ContentOf(files, path) == (CHOOSE x \in files : x.path = path).content

\* os.Open(processedFilePath).
OpenProcessed(r) ==
  /\ h[r].pc = "open"
  /\ LET f == h[r]
         processedFilePath == Deref(f.processedFilePath)
     IN  \/ Fail(r, f, StatusInternalServerError, "Error opening processed file", Some("io"))
         \/ /\ Exists(disk, processedFilePath)
            /\ h' = [h EXCEPT ![r] =
                       [f EXCEPT !.processedFile =
                                    Some([path |-> processedFilePath,
                                          reads |-> ContentOf(disk, processedFilePath)]),
                                 !.defers = Append(f.defers,
                                    [call |-> "processedFile.Close", path |-> processedFilePath]),
                                 !.pc = "probe"]]
            /\ disk' = disk
  /\ UNCHANGED <<db, store, ret, pair, probe, class>>

\* The probe runs of the pipeline specification.
ProbeRuns ==
  {ProbeRun("fail", FALSE, <<>>), ProbeRun("ok", FALSE, <<>>)}
  \cup {ProbeRun("ok", TRUE, s) : s \in ProbeStreams}

\* Mutant: the classes keep the spec's names as prefixes.
AspectRatioPrefixSpecNames(aspectRatio) ==
  CASE aspectRatio = "16:9" -> <<"w", "i", "d", "e", "/">>
    [] aspectRatio = "9:16" -> <<"t", "a", "l", "l", "/">>
    [] OTHER -> <<"o", "t", "h", "e", "r", "/">>

\* The switch that sets aspectRatioPrefix.
AspectRatioPrefix(aspectRatio) ==
  CASE aspectRatio = "16:9" -> <<"l", "a", "n", "d", "s", "c", "a", "p", "e", "/">>
    [] aspectRatio = "9:16" -> <<"p", "o", "r", "t", "r", "a", "i", "t", "/">>
    [] OTHER -> <<"o", "t", "h", "e", "r", "/">>

\* hex.EncodeToString: two lower-case digits per byte.
HexDigits == <<"0", "1", "2", "3", "4", "5", "6", "7", "8", "9", "a", "b", "c", "d", "e", "f">>
RECURSIVE EncodeToString(_)
EncodeToString(bytes) ==
  IF bytes = <<>> THEN <<>>
  ELSE <<HexDigits[(bytes[1] \div 16) + 1], HexDigits[(bytes[1] % 16) + 1]>>
       \o EncodeToString(Tail(bytes))

\* fileKey := aspectRatioPrefix + hexString + fileExt.
FileKey(aspectRatio, randomBytes, fileExt) ==
  AspectRatioPrefix(aspectRatio) \o EncodeToString(randomBytes) \o fileExt

\* getVideoAspectRatio(processedFilePath) and the key built from its class.
\* A panic unwinds the handler: its deferred calls run and no response is
\* written.
AspectRatio(r) ==
  /\ h[r].pc = "probe"
  /\ \E run \in ProbeRuns :
       LET f == [Enter(h[r], "classify") EXCEPT !.tools = Append(h[r].tools, "ffprobe")]
           a == getVideoAspectRatio(run)
       IN  CASE a.kind = "panic" ->
                  /\ h' = [h EXCEPT ![r] = Returned([f EXCEPT !.panicked = TRUE])]
                  /\ disk' = RunDefers(disk, f.defers)
             [] a.kind = "err" ->
                  Fail(r, f, StatusInternalServerError, "Error getting video aspect ratio",
                       Some(a.val))
             [] OTHER ->
                  /\ h' = [h EXCEPT ![r] =
                             [Enter(f, "derive") EXCEPT
                                !.probed = run.streams,
                                !.aspectRatio = a.val,
                                !.fileKey = FileKey(a.val, f.randomBytes, f.fileExt),
                                !.pc = "put"]]
                  /\ disk' = disk
  /\ UNCHANGED <<db, store, ret, pair, probe, class>>

\* Put(objects, o): the store after a put; an object under the same bucket and
\* key is replaced.
Put(objects, o) ==
  {x \in objects : ~(x.Bucket = o.Bucket /\ x.Key = o.Key)} \cup {o}

\* Mutant: the staged upload is sent instead of the processed file.
PutBodyStaged(f, files) ==
  [path |-> Deref(f.tempFile), reads |-> ContentOf(files, Deref(f.tempFile))]

\* Body: processedFile.
PutBody(f, files) == Deref(f.processedFile)

\* cfg.s3Client.PutObject with the processed file as the body.
PutObject(r) ==
  /\ h[r].pc = "put"
  /\ \E ok \in BOOLEAN :
       LET putParams == [Bucket |-> s3Bucket, Key |-> h[r].fileKey,
                         Body |-> PutBody(h[r], disk),
                         ContentType |-> h[r].mediaContentType, by |-> r]
           f == [Enter(h[r], "put") EXCEPT !.puts = Append(h[r].puts, putParams)]
       IN  IF ~ok
           THEN /\ Fail(r, f, StatusInternalServerError, "Error uploading video to S3", Some("s3"))
                /\ store' = store
           ELSE /\ h' = [h EXCEPT ![r] = [f EXCEPT !.pc = "update"]]
                /\ store' = Put(store, putParams)
                /\ disk' = disk
  /\ UNCHANGED <<db, ret, pair, probe, class>>

\* fmt.Sprintf("https://%s.s3.%s.amazonaws.com/%s", bucket, region, fileKey).
VideoURLOf(bucket, region, fileKey) ==
  <<"h", "t", "t", "p", "s", ":", "/", "/">> \o bucket \o <<".", "s", "3", ".">> \o region
  \o <<".", "a", "m", "a", "z", "o", "n", "a", "w", "s", ".", "c", "o", "m", "/">> \o fileKey

\* video.VideoURL = &videoURL, cfg.db.UpdateVideo(video) and the response.
UpdateVideo(r) ==
  /\ h[r].pc = "update"
  /\ LET f == Enter(h[r], "update")
         videoURL == VideoURLOf(s3Bucket, s3Region, f.fileKey)
         video == [f.video EXCEPT !.VideoURL = Some(videoURL)]
     IN  /\ db' = [db EXCEPT ![video.ID] = video]
         /\ h' = [h EXCEPT ![r] = Returned(respondWithJSON(
                                     [f EXCEPT !.video = video, !.updated = TRUE], StatusOK))]
         /\ disk' = RunDefers(disk, f.defers)
  /\ pair' = Nil
  /\ UNCHANGED <<store, ret, probe, class>>

\* A read of a record: dbVideoToSignedVideo just before it is returned.
ReadVideo(v) ==
  /\ Quiescent
  /\ \E sdk \in {"ok", "err"} :
       LET x == dbVideoToSignedVideo(db[v], sdk)
       IN  ret' = Some([arg |-> db[v], video |-> x.video, err |-> x.err, calls |-> x.calls])
  /\ UNCHANGED <<db, disk, store, h, pair, probe, class>>

\* The classifier applied to the drawn probe run.
Classify ==
  /\ ~IsNil(probe)
  /\ class' = Some(getVideoAspectRatio(Deref(probe)))
  /\ UNCHANGED <<db, disk, store, h, ret, pair, probe>>

\* ---------------------------------------------------------- specifications
Videos == {"V1"}

Init ==
  /\ db = [v \in Videos |-> [ID |-> v, UserID |-> "U1", VideoURL |-> Nil]]
  /\ disk = {}
  /\ store = {}
  /\ h = [r \in Reqs |-> IdleFrame]
  /\ ret = Nil
  /\ pair = Nil
  /\ probe = Nil
  /\ class = Nil

Next ==
  \/ \E r \in Reqs : Receive(r)
  \/ \E r \in Reqs : Authorize(r)
  \/ \E r \in Reqs : ParseForm(r)
  \/ \E r \in Reqs : CreateTemp(r)
  \/ \E r \in Reqs : CopyBody(r)
  \/ \E r \in Reqs : FastStart(r)
  \/ \E r \in Reqs : OpenProcessed(r)
  \/ \E r \in Reqs : AspectRatio(r)
  \/ \E r \in Reqs : PutObject(r)
  \/ \E r \in Reqs : UpdateVideo(r)
  \/ \E v \in Videos : ReadVideo(v)

Spec == Init /\ [][Next]_vars

\* The resolver on any record the metadata store can hold: VideoURL unset, any
\* string over the alphabet, or a bucket (no comma) and a key joined by a comma.
Join(bucket, key) == bucket \o <<",">> \o key

InitResolver ==
  /\ \/ /\ pair = Nil
        /\ \E u \in {Nil} \cup {Some(s) : s \in StringsOver(Alphabet, MaxLen)} :
             db = [v \in Videos |-> [ID |-> v, UserID |-> "U1", VideoURL |-> u]]
     \/ \E bucket \in StringsOver(Alphabet \ {","}, MaxPart), key \in StringsOver(Alphabet, MaxPart) :
          /\ pair = Some(<<bucket, key>>)
          /\ db = [v \in Videos |-> [ID |-> v, UserID |-> "U1",
                                     VideoURL |-> Some(Join(bucket, key))]]
  /\ disk = {}
  /\ store = {}
  /\ h = [r \in Reqs |-> IdleFrame]
  /\ ret = Nil
  /\ probe = Nil
  /\ class = Nil

NextResolver == \E v \in Videos : ReadVideo(v)

SpecResolver == InitResolver /\ [][NextResolver]_vars

\* The classifier on any probe run: a failed run, unparsable output, no stream,
\* or a first stream of any bounded width and height.
InitClassify ==
  /\ probe \in {Some(run) : run \in
        {ProbeRun("fail", FALSE, <<>>), ProbeRun("ok", FALSE, <<>>), ProbeRun("ok", TRUE, <<>>)}
        \cup {ProbeRun("ok", TRUE, <<[Width |-> w, Height |-> ht]>>) :
                w \in 0..MaxDim, ht \in 0..MaxDim}}
  /\ class = Nil
  /\ db = [v \in Videos |-> [ID |-> v, UserID |-> "U1", VideoURL |-> Nil]]
  /\ disk = {}
  /\ store = {}
  /\ h = [r \in Reqs |-> IdleFrame]
  /\ ret = Nil
  /\ pair = Nil

NextClassify == Classify

SpecClassify == InitClassify /\ [][NextClassify]_vars

\* ------------------------------------------------------------------ claims
FilesOf(r) == {x \in disk : x.by = r}
ObjectsOf(r) == {o \in store : o.by = r}
HasPrefix(s, p) == Len(s) >= Len(p) /\ SubSeq(s, 1, Len(p)) = p

\* C1: once an upload request has completed, on whatever exit path, no local
\* file it created is left on disk: neither the staged temp file nor the
\* '.processing' file, also when the remux tool left one before exiting nonzero.
C1_NoResidualFiles ==
  \A r \in Reqs : h[r].pc = "done" => FilesOf(r) = {}

\* C2: the VideoURL an upload persists splits on the comma into exactly two
\* parts, so resolving the record never ends in the invalid-descriptor error.
C2_PersistedDescriptorSplits ==
  \A r \in Reqs :
    h[r].updated =>
      LET video == db[h[r].videoID] IN
      /\ ~IsNil(video.VideoURL)
      /\ Len(SplitN(Deref(video.VideoURL), ",", 2)) = 2
      /\ dbVideoToSignedVideo(video, "ok").err # "invalid videoURL"

\* C3: when the probe's parsed output holds no stream, getVideoAspectRatio
\* returns an error: no class and no abort without an error value.
C3_NoStreamsIsError ==
  (~IsNil(class) /\ Deref(probe).exit = "ok" /\ Deref(probe).json
     /\ Len(Deref(probe).streams) = 0)
  => Deref(class).kind = "err"

\* What an upload that was turned away before staging leaves behind: nothing.
NothingStaged(r) ==
  /\ IsNil(h[r].tempFile)
  /\ IsNil(h[r].processedFilePath)
  /\ h[r].tools = <<>>
  /\ h[r].puts = <<>>
  /\ ~h[r].updated
  /\ FilesOf(r) = {}
  /\ ObjectsOf(r) = {}

\* C4 (as stated): every upload whose body exceeds the ceiling ends with 413,
\* creates no temp file, puts no object and leaves the record alone.
C4_OversizeAlways413 ==
  \A r \in Reqs :
    (h[r].pc = "done" /\ h[r].bodySize > maxUploadSize)
    => (h[r].status = StatusRequestEntityTooLarge /\ NothingStaged(r))

\* C4 (amended): an upload whose body exceeds the ceiling never creates a temp
\* file, never puts an object and never updates the record; it ends with 413
\* when it passed the id, credential, lookup and owner checks that come before
\* the body is read and the body is otherwise a well-formed multipart form.
C4_OversizeRejected ==
  \A r \in Reqs :
    h[r].bodySize > maxUploadSize =>
      /\ NothingStaged(r)
      /\ h[r].pc \in {"validate", "parse", "done"}
      /\ (h[r].pc = "done" /\ h[r].parsed /\ h[r].multipart # "malformed")
         => (h[r].status = StatusRequestEntityTooLarge /\ h[r].writes = 1)
      /\ (h[r].pc = "done" /\ h[r].status = StatusRequestEntityTooLarge)
         => h[r].msg = "File is too large"

C4_Witness ==
  \E r \in Reqs :
    /\ h[r].pc = "done"
    /\ h[r].bodySize = maxUploadSize + 1
    /\ h[r].parsed
    /\ h[r].multipart = "ok"
    /\ h[r].status = StatusRequestEntityTooLarge

\* C5: when the authenticated user is not the owner of the target record, the
\* request ends with the unauthorized error before any staging: the body is
\* not parsed, no temp file is created, no tool runs, no object is put and the
\* record is as it was read.
C5_NonOwnerRejected ==
  \A r \in Reqs :
    (h[r].userID # "" /\ h[r].video.ID # "" /\ h[r].video.UserID # h[r].userID)
    => /\ h[r].pc = "done"
       /\ h[r].status = StatusUnauthorized
       /\ h[r].msg = "You can't upload a video for this user"
       /\ h[r].writes = 1
       /\ ~h[r].parsed
       /\ h[r].stages = <<"validate">>
       /\ NothingStaged(r)
       /\ db[h[r].videoID] = h[r].video

C5_Witness ==
  \E r \in Reqs :
    /\ h[r].pc = "done"
    /\ h[r].userID = "U2"
    /\ h[r].video.UserID = "U1"
    /\ h[r].status = StatusUnauthorized
    /\ r > 1
    /\ ~IsNil(db["V1"].VideoURL)

\* The first stream of the drawn probe run.
FirstStream == Deref(probe).streams[1]
Classified ==
  /\ ~IsNil(class)
  /\ Deref(probe).exit = "ok"
  /\ Deref(probe).json
  /\ Len(Deref(probe).streams) > 0
ClassifiedAs(w, ht, c) ==
  (Classified /\ FirstStream.Width = w /\ FirstStream.Height = ht)
  => Deref(class) = [kind |-> "ok", val |-> c]

\* C6: for a first stream of width w >= 0 and height ht > 0 the class is wide
\* ("16:9") exactly when 1.70 < w/ht < 1.85, tall ("9:16") exactly when
\* 0.52 < w/ht < 0.60 and other in every remaining case, both ends of each band
\* excluded: 1.77 is wide, 0.565 is tall, and 1.86, 0.50, 1.70, 1.85, 0.52 and
\* 0.60 are other.
C6_Bands ==
  /\ (Classified /\ FirstStream.Height > 0) =>
       LET w == FirstStream.Width
           ht == FirstStream.Height
           wide == 170 * ht < 100 * w /\ 100 * w < 185 * ht
           tall == 52 * ht < 100 * w /\ 100 * w < 60 * ht
       IN  /\ Deref(class).kind = "ok"
           /\ Deref(class).val \in {"16:9", "9:16", "other"}
           /\ Deref(class).val = "16:9" <=> wide
           /\ Deref(class).val = "9:16" <=> tall
           /\ Deref(class).val = "other" <=> (~wide /\ ~tall)
  /\ ClassifiedAs(177, 100, "16:9")
  /\ ClassifiedAs(113, 200, "9:16")
  /\ ClassifiedAs(186, 100, "other")
  /\ ClassifiedAs(1, 2, "other")
  /\ ClassifiedAs(17, 10, "other")
  /\ ClassifiedAs(37, 20, "other")
  /\ ClassifiedAs(13, 25, "other")
  /\ ClassifiedAs(3, 5, "other")

C6_Witness ==
  /\ Classified
  /\ FirstStream = [Width |-> 37, Height |-> 20]
  /\ Deref(class).val = "other"

\* The put that a request's upload succeeded with.
Uploaded(r) == h[r].pc \in {"update", "done"} /\ h[r].puts # <<>> /\ h[r].status \in {0, StatusOK}
TokenOf(bytes) == CASE bytes = <<10>> -> <<"0", "a">> [] bytes = <<255>> -> <<"f", "f">>
Mp4 == <<".", "m", "p", "4">>

\* C7 (as stated): the key of a successful upload is <class>/<token>.<ext>,
\* and a file classified wide (1920x1080) gets a key prefixed wide/.
C7_WideKeyPrefixedWide ==
  \A r \in Reqs :
    (Uploaded(r) /\ h[r].probed[1] = [Width |-> 1920, Height |-> 1080])
    => HasPrefix(h[r].puts[1].Key, <<"w", "i", "d", "e", "/">>)

\* C7 (amended): the key of a successful upload is <prefix><token>.mp4, the
\* token being the hex of the request's random bytes and the prefix following
\* from the class of the normalized file: landscape/ for wide (16:9),
\* portrait/ for tall (9:16), other/ for other; a 1920x1080 file gets a key
\* prefixed landscape/.
C7_KeyForm ==
  \A r \in Reqs :
    Uploaded(r) =>
      LET key == h[r].puts[1].Key
          w == h[r].probed[1].Width
          ht == h[r].probed[1].Height
          wide == 170 * ht < 100 * w /\ 100 * w < 185 * ht
          tall == 52 * ht < 100 * w /\ 100 * w < 60 * ht
          prefix == IF wide THEN <<"l", "a", "n", "d", "s", "c", "a", "p", "e", "/">>
                    ELSE IF tall THEN <<"p", "o", "r", "t", "r", "a", "i", "t", "/">>
                    ELSE <<"o", "t", "h", "e", "r", "/">>
      IN  /\ key = prefix \o TokenOf(h[r].randomBytes) \o Mp4
          /\ (w = 1920 /\ ht = 1080) => HasPrefix(key, <<"l", "a", "n", "d", "s", "c", "a", "p", "e", "/">>)
          /\ \A o \in ObjectsOf(r) : o.Key = key

C7_Witness ==
  \E r \in Reqs :
    /\ h[r].pc = "done"
    /\ h[r].status = StatusOK
    /\ h[r].probed[1] = [Width |-> 1920, Height |-> 1080]
    /\ \E o \in ObjectsOf(r) : HasPrefix(o.Key, <<"l", "a", "n", "d", "s", "c", "a", "p", "e", "/">>)

\* The descriptor s is two non-empty fields around its first comma.
TwoNonEmptyFields(s) ==
  \E i \in 1..Len(s) :
    /\ s[i] = ","
    /\ \A j \in 1..(i - 1) : s[j] # ","
    /\ i > 1
    /\ i < Len(s)

\* C8: for every set VideoURL that is not two non-empty fields (no comma, an
\* empty bucket as in ",key", an empty key as in "bucket,") the resolver returns
\* the malformed-descriptor error and does not call the store's signing.
C8_MalformedRejected ==
  (~IsNil(ret) /\ ~IsNil(Deref(ret).arg.VideoURL)
     /\ ~TwoNonEmptyFields(Deref(Deref(ret).arg.VideoURL)))
  => (Deref(ret).err = "invalid videoURL" /\ Deref(ret).calls = <<>>)

\* C9: given a record whose VideoURL is unset, the resolver returns the record
\* unchanged with no error and makes no call to the object store.
C9_UnsetPassthrough ==
  (~IsNil(ret) /\ IsNil(Deref(ret).arg.VideoURL))
  => /\ Deref(ret).video = Deref(ret).arg
     /\ Deref(ret).err = "nil"
     /\ Deref(ret).calls = <<>>

C9_Witness ==
  /\ ~IsNil(ret)
  /\ IsNil(Deref(ret).arg.VideoURL)
  /\ Deref(ret).video = db["V1"]

\* C10: for a bucket without a comma and any key, the resolver's split of
\* bucket + "," + key gives exactly that bucket and that key (commas inside the
\* key stay in the key): those are the two values it hands to the signing call.
C10_SplitRecoversPair ==
  (~IsNil(ret) /\ ~IsNil(pair))
  => /\ Deref(ret).arg.VideoURL = Some(Join(Deref(pair)[1], Deref(pair)[2]))
     /\ Deref(ret).calls = <<Deref(pair)>>
     /\ Deref(ret).err # "invalid videoURL"

C10_Witness ==
  /\ ~IsNil(ret)
  /\ ~IsNil(pair)
  /\ Deref(pair) = <<<<"b">>, <<"k", ",">>>>
  /\ Deref(ret).calls = <<<<<<"b">>, <<"k", ",">>>>>>

\* The remux tool ran for request r and exited nonzero.
RemuxFailed(r) == ~IsNil(h[r].ffmpeg) /\ Deref(h[r].ffmpeg).exit # "ok"

\* C11: when the remux tool exits nonzero, the error processVideoForFastStart
\* returns carries the tool's stderr verbatim, the request ends with a server
\* error, no object is put, the record is not updated and the staged original
\* file is removed.
C11_RemuxFailure ==
  \A r \in Reqs :
    RemuxFailed(r) =>
      /\ h[r].pc = "done"
      /\ h[r].err = Some([msg |-> "ffmpeg error", details |-> Deref(h[r].ffmpeg).stderr])
      /\ h[r].status = StatusInternalServerError
      /\ h[r].msg = "Error processing video for fast start"
      /\ h[r].puts = <<>>
      /\ ObjectsOf(r) = {}
      /\ ~h[r].updated
      /\ db[h[r].videoID] = h[r].video
      /\ ~IsNil(h[r].tempFile)
      /\ ~Exists(disk, Deref(h[r].tempFile))

C11_Witness ==
  \E r \in Reqs :
    /\ RemuxFailed(r)
    /\ Deref(h[r].ffmpeg).stderr = "unsupported codec"
    /\ Deref(h[r].err).details = "unsupported codec"
    /\ h[r].status = StatusInternalServerError

\* The request failed: its handler returned without the success response.
Failed(r) == h[r].pc = "done" /\ h[r].status # StatusOK
LastStage(r) == h[r].stages[Len(h[r].stages)]

\* C12: a failed upload gets the status class of its failure kind: a client
\* error (4xx) for a bad id, a missing or invalid credential, an owner
\* mismatch, an oversize body and every content-type problem (an unparsable
\* Content-Type included), a server error (5xx) for staging, normalize-tool,
\* classify and store failures.
C12_StatusClassMatchesKind ==
  \A r \in Reqs :
    Failed(r) =>
      IF LastStage(r) \in {"validate", "parse"}
      THEN h[r].status \in 400..499
      ELSE h[r].status \in 500..599

\* The stages of the pipeline in the order of the handler.
StageOrder ==
  <<"validate", "parse", "stage", "normalize", "classify", "derive", "put", "update">>
IsPrefix(s, t) == Len(s) <= Len(t) /\ SubSeq(t, 1, Len(s)) = s
Reached(r, stage) == \E i \in 1..Len(h[r].stages) : h[r].stages[i] = stage

\* C13: the stages of a request run in the fixed order validation, staging,
\* normalization, classification, key derivation, store put, record update,
\* each only after the one before it succeeded: the put is attempted at most
\* once and only after normalization and classification succeeded, the update
\* happens only after the put succeeded, and after a failure no later stage
\* runs and the record is as it was.
C13_StagesInOrder ==
  \A r \in Reqs :
    /\ IsPrefix(h[r].stages, StageOrder)
    /\ Len(h[r].puts) <= 1
    /\ Reached(r, "put") <=> h[r].puts # <<>>
    /\ Reached(r, "put") =>
         /\ ~IsNil(h[r].ffmpeg) /\ Deref(h[r].ffmpeg).exit = "ok"
         /\ h[r].tools = <<"ffmpeg", "ffprobe">>
         /\ h[r].aspectRatio \in {"16:9", "9:16", "other"}
    /\ Reached(r, "update") <=> h[r].updated
    /\ h[r].updated =>
         /\ h[r].status = StatusOK
         /\ h[r].puts[1] \in store
    /\ h[r].status \notin {0, StatusOK} =>
         /\ h[r].pc = "done"
         /\ ~h[r].updated
         /\ h[r].video.ID # "" => db[h[r].video.ID] = h[r].video
    /\ (h[r].pc = "done" /\ h[r].panicked) =>
         /\ LastStage(r) = "classify"
         /\ ~h[r].updated
         /\ db[h[r].video.ID] = h[r].video

C13_Witness ==
  \E r \in Reqs :
    /\ h[r].pc = "done"
    /\ h[r].stages = <<"validate", "parse", "stage", "normalize", "classify", "derive", "put">>
    /\ h[r].status = StatusInternalServerError
    /\ Len(h[r].puts) = 1
    /\ ~IsNil(db["V1"].VideoURL)

\* C14: the body of the store put is the normalized artifact that
\* processVideoForFastStart produced for this request, read from its start,
\* never the staged upload, and the object carries the content type the upload
\* declared.
C14_PutBodyIsNormalized ==
  \A r \in Reqs :
    h[r].puts # <<>> =>
      LET put == h[r].puts[1]
          staged == Deref(h[r].tempFile)
      IN  /\ Deref(h[r].ffmpeg).exit = "ok"
          /\ put.Body.path = staged \o <<".processing">>
          /\ put.Body.path = Deref(h[r].processedFilePath)
          /\ put.Body.path # staged
          /\ put.Body.reads = "faststart"
          /\ put.ContentType = h[r].mediaContentType
          /\ put.ContentType \in {"video/mp4", "video/mp4; codecs=avc1"}
          /\ h[r].pc = "update" =>
               /\ [path |-> put.Body.path, by |-> r, content |-> "faststart"] \in disk
               /\ put \in store
          /\ \A o \in ObjectsOf(r) : o = put

C14_Witness ==
  \E r \in Reqs :
    /\ h[r].pc = "done"
    /\ h[r].status = StatusOK
    /\ \E o \in ObjectsOf(r) :
         /\ o.ContentType = "video/mp4; codecs=avc1"
         /\ o.Body.reads = "faststart"

\* ------------------------------------------------------------ concurrency
\* One goroutine per request: a request arrives while earlier ones are still
\* being served, and the steps of the handlers interleave.
ReceiveConc(r) ==
  /\ h[r].pc = "idle"
  /\ \A q \in Reqs : q < r => h[q].pc # "idle"
  /\ \E size \in BodySizes :
       h' = [h EXCEPT ![r] = [IdleFrame EXCEPT !.pc = "validate", !.bodySize = size]]
  /\ UNCHANGED <<db, disk, store, ret, pair, probe, class>>

NextConc ==
  \/ \E r \in Reqs : ReceiveConc(r)
  \/ \E r \in Reqs : Authorize(r)
  \/ \E r \in Reqs : ParseForm(r)
  \/ \E r \in Reqs : CreateTemp(r)
  \/ \E r \in Reqs : CopyBody(r)
  \/ \E r \in Reqs : FastStart(r)
  \/ \E r \in Reqs : OpenProcessed(r)
  \/ \E r \in Reqs : AspectRatio(r)
  \/ \E r \in Reqs : PutObject(r)
  \/ \E r \in Reqs : UpdateVideo(r)

SpecConc == Init /\ [][NextConc]_vars

InFlight(r) == h[r].pc \notin {"idle", "gone", "done"}
OwnedBy(r, path) == \A x \in disk : x.path = path => x.by = r

\* The staged and the normalized file of two requests in flight never share a
\* path.
PathsDistinct ==
  \A r, q \in Reqs :
    (r # q /\ InFlight(r) /\ InFlight(q)) =>
      LET mine == {Deref(p) : p \in {h[r].tempFile, h[r].processedFilePath} \ {Nil}}
          theirs == {Deref(p) : p \in {h[q].tempFile, h[q].processedFilePath} \ {Nil}}
      IN  mine \cap theirs = {}

\* A request in flight reads, uploads and will remove only files it created.
OwnFilesOnly ==
  \A r \in Reqs :
    InFlight(r) =>
      /\ ~IsNil(h[r].tempFile) => [path |-> Deref(h[r].tempFile), by |-> r] \in
                                    {[path |-> x.path, by |-> x.by] : x \in disk}
      /\ ~IsNil(h[r].processedFile) => OwnedBy(r, Deref(h[r].processedFile).path)
      /\ \A i \in 1..Len(h[r].defers) :
           h[r].defers[i].path # <<>> => OwnedBy(r, h[r].defers[i].path)
      /\ \A i \in 1..Len(h[r].puts) : OwnedBy(r, h[r].puts[i].Body.path)

\* Once every request has completed, none of their local files is left.
NoneLeftWhenAllDone ==
  (\A r \in Reqs : h[r].pc = "done") => disk = {}

\* C15: under any interleaving of concurrent uploads (also for the same video
\* id) the staged and '.processing' paths of the requests in flight are
\* distinct, no request reads, uploads or removes a file of another request,
\* and once all requests have completed no local file of any of them is left.
C15_ConcurrentIsolation ==
  /\ PathsDistinct
  /\ OwnFilesOnly
  /\ NoneLeftWhenAllDone

\* C16: a request whose handler has ended wrote exactly one response: one
\* respondWithError on a failure path (a probe result with no streams
\* included) or one respondWithJSON on success, never none and never two.
C16_ExactlyOneResponse ==
  \A r \in Reqs :
    h[r].pc = "done" =>
      /\ h[r].writes = 1
      /\ h[r].status # 0
      /\ h[r].status = StatusOK <=> h[r].updated

====
